---- MODULE Spec2Model ----
(***************************************************************************)
(* build_ml_pipeline.py: one run of main() is a straight line of calls to  *)
(* the Azure ML SDK and the Databricks REST client.  The model keeps the   *)
(* remote state the calls read and change (compute targets, instance       *)
(* pools, workspace folders and imports), the locals of main(), and the    *)
(* trace of the calls a run has issued.  Runs follow one another against   *)
(* the same remote state.                                                  *)
(***************************************************************************)
EXTENDS Integers, Sequences, FiniteSets, TLC

VARIABLES
    compute_targets,        \* workspace.compute_targets: name -> target
    pools,                  \* the pools instance-pools/list returns, in order
    consistent,             \* a created pool shows in later listings
    created,                \* instance-pools/create requests the service accepted
    workspace_dirs,         \* folders made by workspace/mkdirs
    imported,               \* workspace/import requests the service accepted
    run,                    \* number of the current run of main()
    pc,                     \* position of the run in main()
    log,                    \* calls issued by the current run, in order
    error,                  \* what ended the run: "none", "SystemExit" (argparse),
                            \* "ValueError" (line 28), "NameError" (line 39), or
                            \* "sdk" (the last call of the trace raised)
    argv,                   \* the command line of the run
    args,                   \* parser.parse_args()
    aml_run,
    dbricks_compute,
    pat_token,
    instance_pool_id,
    notebook_path,
    training_dataprep_step,
    published_pipeline

env    == <<compute_targets, pools, consistent, created, workspace_dirs, imported>>
locals == <<argv, args, aml_run, dbricks_compute, pat_token, instance_pool_id,
            notebook_path, training_dataprep_step, published_pipeline>>
vars   == <<compute_targets, pools, consistent, created, workspace_dirs, imported,
            run, pc, log, error, argv, args, aml_run, dbricks_compute, pat_token,
            instance_pool_id, notebook_path, training_dataprep_step,
            published_pipeline>>

----------------------------------------------------------------------------
\* Bounds of the model.
MaxRuns == 2
MaxPools == 2

----------------------------------------------------------------------------
\* Values.
None == "None"

NoneObject == [type |-> "NoneType", truthy |-> FALSE]

DATABRICKS_RUNTIME_VERSION == "6.2.x-scala2.11"

dbricks_compute_name == "databricks"

pool_name == "azureml_training"

notebook_folder == "/Shared/AzureMLDeployed"

notebook_name == "feature_engineering"

\* What a value of workspace.compute_targets can be: a DatabricksCompute,
\* a compute of another type, an object that tests false, or None.
Targets ==
    { [type |-> "DatabricksCompute", truthy |-> TRUE],
      [type |-> "DatabricksCompute", truthy |-> FALSE],
      [type |-> "AmlCompute", truthy |-> TRUE],
      NoneObject }

\* The dictionaries workspace.compute_targets may be: the name 'databricks'
\* absent or bound to any target, beside an AmlCompute cluster or none.
ComputeTargetDicts ==
    { d \in UNION { [D -> Targets] : D \in SUBSET {dbricks_compute_name, "cpu-cluster"} } :
        "cpu-cluster" \in DOMAIN d => d["cpu-cluster"] = [type |-> "AmlCompute", truthy |-> TRUE] }

PoolNames == {pool_name, "other"}

PoolIds == {"pool-a", "pool-b"}

ListedPools == [instance_pool_name : PoolNames, instance_pool_id : PoolIds]

RECURSIVE SeqsUpTo(_, _)
SeqsUpTo(S, n) ==
    IF n = 0 THEN {<<>>}
    ELSE LET shorter == SeqsUpTo(S, n - 1)
         IN  shorter \cup {Append(s, x) : s \in {t \in shorter : Len(t) = n - 1}, x \in S}

\* Contents the notebook file code/prepare/feature_engineering.py may hold.
FileContents == {"import mlflow", "import pyspark"}

BuildIds == {"b7"}

WorkspaceNames == {"dbw"}

----------------------------------------------------------------------------
\* Python truth value of a string or None (lines 197).
Falsy(v) == v = None \/ v = ""

\* hashlib.sha1(content).hexdigest(), on the contents of the model.
sha1_hexdigest(content) ==
    CASE content = "import mlflow"  -> "3f2a9c"
      [] content = "import pyspark" -> "b81e07"
      [] OTHER                      -> "da39a3"

\* base64.b64encode(content).decode('ascii'), on the contents of the model.
b64encode(content) ==
    CASE content = "import mlflow"  -> "aW1wb3J0IG1sZmxvdw=="
      [] content = "import pyspark" -> "aW1wb3J0IHB5c3Bhcms="
      [] OTHER                      -> ""

\* A call and its outcome, as the trace of a run records it.
Req(call, arg) == [call |-> call, arg |-> arg]

\* The trace after a block of calls of which the first n returned and, when
\* n < Len(reqs), call n+1 raised: nothing after a raising call is issued.
Issue(reqs, n) ==
    LET last == IF n < Len(reqs) THEN n + 1 ELSE n
    IN  log \o [i \in 1..last |->
                  [call |-> reqs[i].call, arg |-> reqs[i].arg, ok |-> i <= n]]

----------------------------------------------------------------------------
Init ==
    /\ compute_targets \in ComputeTargetDicts
    /\ pools \in SeqsUpTo(ListedPools, MaxPools)
    /\ consistent \in BOOLEAN
    /\ created = 0
    /\ workspace_dirs = {}
    /\ imported = {}
    /\ run = 1
    /\ pc = "parse_args"
    /\ log = <<>>
    /\ error = "none"
    /\ argv = [databricks_workspace_name |-> None, build_id |-> None]
    /\ args = [databricks_workspace_name |-> None, build_id |-> None]
    /\ aml_run = None
    /\ dbricks_compute = NoneObject
    /\ pat_token = None
    /\ instance_pool_id = None
    /\ notebook_path = None
    /\ training_dataprep_step = [name |-> None]
    /\ published_pipeline = [name |-> None]

\* An uncaught exception ends the process.
Raise(e) ==
    /\ pc' = "failed"
    /\ error' = e

----------------------------------------------------------------------------
\* Lines 113-124: --databricks_workspace_name is required, --build_id
\* defaults to "local".  argparse exits the process on a missing flag.
ParseArgs ==
    /\ pc = "parse_args"
    /\ \E w \in WorkspaceNames \cup {None}, b \in BuildIds \cup {None} :
         /\ argv' = [databricks_workspace_name |-> w, build_id |-> b]
         /\ IF w = None
            THEN /\ Raise("SystemExit")
                 /\ args' = args
            ELSE /\ args' = [databricks_workspace_name |-> w,
                             build_id |-> IF b = None THEN "local" ELSE b]
                 /\ pc' = "get_context"
                 /\ error' = error
    /\ UNCHANGED <<env, run, log, aml_run, dbricks_compute, pat_token,
                   instance_pool_id, notebook_path, training_dataprep_step,
                   published_pipeline>>

\* Lines 128-133: Run.get_context inside try/except: an exception leaves
\* aml_run None and the run goes on with Workspace.from_config().
GetContext ==
    /\ pc = "get_context"
    /\ \E n \in 0..1 :
         /\ log' = Issue(<<Req("Run.get_context", "")>>, n)
         /\ aml_run' = IF n = 1 THEN "Run" ELSE None
         /\ pc' = IF n = 1 THEN "run_workspace" ELSE "from_config"
    /\ UNCHANGED <<env, run, error, argv, args, dbricks_compute, pat_token,
                   instance_pool_id, notebook_path, training_dataprep_step,
                   published_pipeline>>

\* A block of SDK/API calls with no effect the model keeps: the calls are
\* issued in order, and the first that raises ends the run.
CallBlock(reqs, to) ==
    /\ \E n \in 0..Len(reqs) :
         /\ log' = Issue(reqs, n)
         /\ IF n = Len(reqs)
            THEN pc' = to /\ error' = error
            ELSE Raise("sdk")
    /\ UNCHANGED <<env, run, locals>>

\* Lines 134-143: the workspace of the run, with the service principal read
\* from the key vault.
RunWorkspace ==
    /\ pc = "run_workspace"
    /\ CallBlock(<< Req("get_default_keyvault", ""),
                 Req("get_secret", "TenantId"),
                 Req("get_secret", "ClientId"),
                 Req("get_secret", "ClientSecret"),
                 Req("Workspace", "") >>,
              "credentials")

\* Line 145.
FromConfig ==
    /\ pc = "from_config"
    /\ CallBlock(<<Req("Workspace.from_config", "")>>, "credentials")

\* Lines 148-162: the Databricks credentials, read from the key vault.
Credentials ==
    /\ pc = "credentials"
    /\ CallBlock(<< Req("get_default_keyvault", ""),
                 Req("get_secret", "TenantId"),
                 Req("AuthenticationContext", ""),
                 Req("get_secret", "ClientId"),
                 Req("get_secret", "ClientSecret") >>,
              "authenticate")

\* Lines 164-169.
Authenticate ==
    /\ pc = "authenticate"
    /\ CallBlock(<< Req("databricks_client.create", ""),
                 Req("auth_azuread", args.databricks_workspace_name) >>,
              "get_compute")

\* get_databricks_compute without its raise: a target that is not a usable
\* DatabricksCompute is reported as absent.
get_databricks_compute_NoRaise(targets, compute_name) ==
    IF compute_name \notin DOMAIN targets
    THEN [raised |-> FALSE, value |-> NoneObject]
    ELSE LET compute_target == targets[compute_name]
         IN  IF compute_target.truthy /\ compute_target.type = "DatabricksCompute"
             THEN [raised |-> FALSE, value |-> compute_target]
             ELSE [raised |-> FALSE, value |-> NoneObject]

\* Lines 19-29.  The result is what the function returns, or that it raised.
get_databricks_compute(targets, compute_name) ==
    IF compute_name \notin DOMAIN targets
    THEN [raised |-> FALSE, value |-> NoneObject]
    ELSE LET compute_target == targets[compute_name]
         IN  IF compute_target.truthy /\ compute_target.type = "DatabricksCompute"
             THEN [raised |-> FALSE, value |-> compute_target]
             ELSE [raised |-> TRUE, value |-> NoneObject]

\* Lines 172-177: workspace.compute_targets is read at line 23 and, when the
\* name is a key, again at line 25.
GetCompute ==
    /\ pc = "get_compute"
    /\ LET reads == IF dbricks_compute_name \in DOMAIN compute_targets
                    THEN << Req("Workspace.compute_targets", ""),
                            Req("Workspace.compute_targets", "") >>
                    ELSE << Req("Workspace.compute_targets", "") >>
           result == get_databricks_compute(compute_targets, dbricks_compute_name)
       IN  \E n \in 0..Len(reads) :
             /\ log' = Issue(reads, n)
             /\ IF n < Len(reads)
                THEN Raise("sdk") /\ dbricks_compute' = dbricks_compute
                ELSE IF result.raised
                THEN Raise("ValueError") /\ dbricks_compute' = dbricks_compute
                ELSE /\ dbricks_compute' = result.value
                     /\ pc' = IF result.value = NoneObject
                              THEN "token_create" ELSE "pool_lookup"
                     /\ error' = error
    /\ UNCHANGED <<env, run, argv, args, aml_run, pat_token, instance_pool_id,
                   notebook_path, training_dataprep_step, published_pipeline>>

\* Lines 178-183.
TokenCreate ==
    /\ pc = "token_create"
    /\ \E n \in 0..1 :
         /\ log' = Issue(<<Req("token/create",
                               "Azure ML Token generated by Build " \o args.build_id)>>, n)
         /\ IF n = 1
            THEN /\ pat_token' = "dapi-" \o ToString(run)
                 /\ pc' = "create_compute"
                 /\ error' = error
            ELSE /\ Raise("sdk")
                 /\ pat_token' = pat_token
    /\ UNCHANGED <<env, run, argv, args, aml_run, dbricks_compute, instance_pool_id,
                   notebook_path, training_dataprep_step, published_pipeline>>

\* Lines 184-188 and 32-48.  create_databricks_compute evaluates
\* args.databricks_workspace_name at line 39, and args is a local of main():
\* the name is not defined in the function and the evaluation raises
\* NameError before ComputeTarget.attach is called.
CreateCompute ==
    /\ pc = "create_compute"
    /\ Raise("NameError")
    /\ UNCHANGED <<env, run, log, locals>>

----------------------------------------------------------------------------
\* What instance-pools/list answers: the element 'instance_pools' is not
\* returned when there are no instance pools.
EmptyResponse == [k \in {} |-> None]

ListResponses(listed) ==
    IF listed = <<>> THEN {EmptyResponse} ELSE {[instance_pools |-> listed]}

\* Lines 103-106: the loop over response['instance_pools'], from position i.
RECURSIVE FirstPoolNamed(_, _, _)
FirstPoolNamed(listed, i, name) ==
    IF i > Len(listed) THEN None
    ELSE IF listed[i].instance_pool_name = name
    THEN listed[i].instance_pool_id
    ELSE FirstPoolNamed(listed, i + 1, name)

\* get_instance_pool without the comparison of names.
get_instance_pool_FirstListed(response, name) ==
    IF "instance_pools" \in DOMAIN response
    THEN response.instance_pools[1].instance_pool_id
    ELSE None

\* Lines 91-106, on the response of the list request.
get_instance_pool(response, name) ==
    IF "instance_pools" \in DOMAIN response
    THEN FirstPoolNamed(response.instance_pools, 1, name)
    ELSE None

\* The pool stage without the test of line 197: it creates whatever the
\* lookup returned.
PoolLookup_AlwaysCreate ==
    /\ pc = "pool_lookup"
    /\ \E n \in 0..1, response \in ListResponses(pools) :
         /\ log' = Issue(<<Req("instance-pools/list", "")>>, n)
         /\ IF n = 1
            THEN /\ instance_pool_id' = get_instance_pool(response, pool_name)
                 /\ pc' = "pool_create"
                 /\ error' = error
            ELSE /\ Raise("sdk")
                 /\ instance_pool_id' = instance_pool_id
    /\ UNCHANGED <<env, run, argv, args, aml_run, dbricks_compute, pat_token,
                   notebook_path, training_dataprep_step, published_pipeline>>

\* Lines 194-197.
PoolLookup ==
    /\ pc = "pool_lookup"
    /\ \E n \in 0..1, response \in ListResponses(pools) :
         /\ log' = Issue(<<Req("instance-pools/list", "")>>, n)
         /\ IF n = 1
            THEN /\ instance_pool_id' = get_instance_pool(response, pool_name)
                 /\ pc' = IF Falsy(instance_pool_id') THEN "pool_create" ELSE "datastores"
                 /\ error' = error
            ELSE /\ Raise("sdk")
                 /\ instance_pool_id' = instance_pool_id
    /\ UNCHANGED <<env, run, argv, args, aml_run, dbricks_compute, pat_token,
                   notebook_path, training_dataprep_step, published_pipeline>>

\* instance-pools/create inside a try/except that goes on to the lookup.
PoolCreate_IgnoreError ==
    /\ pc = "pool_create"
    /\ \E n \in 0..1 :
         /\ log' = Issue(<<Req("instance-pools/create", pool_name)>>, n)
         /\ created' = IF n = 1 THEN created + 1 ELSE created
         /\ pools' = IF n = 1 /\ consistent
                     THEN Append(pools,
                                 [instance_pool_name |-> pool_name,
                                  instance_pool_id |-> "pool-" \o ToString(created + 1)])
                     ELSE pools
         /\ pc' = "pool_relookup"
         /\ error' = error
    /\ UNCHANGED <<compute_targets, consistent, workspace_dirs, imported, run, locals>>

\* Lines 198-206.  The service gives the pool it creates a new id; the pool
\* shows in later listings when the service is consistent.
PoolCreate ==
    /\ pc = "pool_create"
    /\ \E n \in 0..1 :
         /\ log' = Issue(<<Req("instance-pools/create", pool_name)>>, n)
         /\ IF n = 1
            THEN /\ created' = created + 1
                 /\ pools' = IF consistent
                             THEN Append(pools,
                                         [instance_pool_name |-> pool_name,
                                          instance_pool_id |-> "pool-" \o ToString(created + 1)])
                             ELSE pools
                 /\ pc' = "pool_relookup"
                 /\ error' = error
            ELSE /\ Raise("sdk")
                 /\ UNCHANGED <<created, pools>>
    /\ UNCHANGED <<compute_targets, consistent, workspace_dirs, imported, run, locals>>

\* The second lookup as the head of a retry: a pool still absent is created
\* once more.
PoolRelookup_Retry ==
    /\ pc = "pool_relookup"
    /\ \E n \in 0..1, response \in ListResponses(pools) :
         /\ log' = Issue(<<Req("instance-pools/list", "")>>, n)
         /\ IF n = 1
            THEN /\ instance_pool_id' = get_instance_pool(response, pool_name)
                 /\ pc' = IF /\ Falsy(instance_pool_id')
                             /\ Cardinality({i \in 1..Len(log) :
                                               log[i].call = "instance-pools/create"}) < 2
                          THEN "pool_create" ELSE "datastores"
                 /\ error' = error
            ELSE /\ Raise("sdk")
                 /\ instance_pool_id' = instance_pool_id
    /\ UNCHANGED <<env, run, argv, args, aml_run, dbricks_compute, pat_token,
                   notebook_path, training_dataprep_step, published_pipeline>>

\* Lines 207-208: the second lookup; its result is not tested.
PoolRelookup ==
    /\ pc = "pool_relookup"
    /\ \E n \in 0..1, response \in ListResponses(pools) :
         /\ log' = Issue(<<Req("instance-pools/list", "")>>, n)
         /\ IF n = 1
            THEN /\ instance_pool_id' = get_instance_pool(response, pool_name)
                 /\ pc' = "datastores"
                 /\ error' = error
            ELSE /\ Raise("sdk")
                 /\ instance_pool_id' = instance_pool_id
    /\ UNCHANGED <<env, run, argv, args, aml_run, dbricks_compute, pat_token,
                   notebook_path, training_dataprep_step, published_pipeline>>

\* Lines 210-224.
Datastores ==
    /\ pc = "datastores"
    /\ CallBlock(<< Req("Datastore", "workspaceblobstore"),
                 Req("Datastore", "trainingdata") >>,
              "upload_notebook")

\* The folder of the notebook without the checksum of its content.
NotebookSubfolder_NoChecksum(folder, content) == folder

\* Lines 62-65.
NotebookSubfolder(folder, content) == folder \o "/" \o sha1_hexdigest(content)

NotebookPath(folder, content, name) == NotebookSubfolder(folder, content) \o "/" \o name

\* Lines 226-228 and 51-88: read the file, make the folder, import the
\* notebook over whatever the path holds, return the path.
UploadNotebook ==
    /\ pc = "upload_notebook"
    /\ \E file_content \in FileContents, n \in 0..3 :
         LET subfolder == NotebookSubfolder(notebook_folder, file_content)
             path      == NotebookPath(notebook_folder, file_content, notebook_name)
         IN  /\ log' = Issue(<< Req("open", "code/prepare/" \o notebook_name \o ".py"),
                                Req("workspace/mkdirs", subfolder),
                                Req("workspace/import", path) >>, n)
             /\ workspace_dirs' = IF n >= 2 THEN workspace_dirs \cup {subfolder}
                                  ELSE workspace_dirs
             /\ IF n = 3
                THEN /\ imported' = imported \cup
                                       {[path |-> path,
                                         content |-> b64encode(file_content),
                                         overwrite |-> TRUE]}
                     /\ notebook_path' = path
                     /\ pc' = "build_step"
                     /\ error' = error
                ELSE /\ Raise("sdk")
                     /\ UNCHANGED <<imported, notebook_path>>
    /\ UNCHANGED <<compute_targets, pools, consistent, created, run, argv, args,
                   aml_run, dbricks_compute, pat_token, instance_pool_id,
                   training_dataprep_step, published_pipeline>>

\* Lines 230-248.
BuildStep ==
    /\ pc = "build_step"
    /\ \E n \in 0..1 :
         /\ log' = Issue(<<Req("DatabricksStep", notebook_path)>>, n)
         /\ IF n = 1
            THEN /\ training_dataprep_step' =
                        [name |-> "FeatureEngineering",
                         spark_version |-> DATABRICKS_RUNTIME_VERSION,
                         instance_pool_id |-> instance_pool_id,
                         num_workers |-> 3,
                         notebook_path |-> notebook_path,
                         compute_target |-> dbricks_compute]
                 /\ pc' = "build_pipeline"
                 /\ error' = error
            ELSE /\ Raise("sdk")
                 /\ training_dataprep_step' = training_dataprep_step
    /\ UNCHANGED <<env, run, argv, args, aml_run, dbricks_compute, pat_token,
                   instance_pool_id, notebook_path, published_pipeline>>

\* The pipeline published whatever Pipeline() and validate() did.
BuildPipeline_IgnoreValidate ==
    /\ pc = "build_pipeline"
    /\ \E n \in 0..2 :
         /\ log' = Issue(<<Req("Pipeline", ""), Req("validate", "")>>, n)
         /\ pc' = "publish"
         /\ error' = error
    /\ UNCHANGED <<env, run, locals>>

\* Lines 250-251.
BuildPipeline ==
    /\ pc = "build_pipeline"
    /\ CallBlock(<<Req("Pipeline", ""), Req("validate", "")>>, "publish")

\* The pipeline published under the default build id.
Publish_VersionLocal ==
    /\ pc = "publish"
    /\ \E n \in 0..1 :
         /\ log' = Issue(<<Req("publish", "local")>>, n)
         /\ IF n = 1
            THEN /\ published_pipeline' =
                        [name |-> "Feature Engineering",
                         version |-> "local",
                         steps |-> <<training_dataprep_step>>]
                 /\ pc' = "done"
                 /\ error' = error
            ELSE /\ Raise("sdk")
                 /\ published_pipeline' = published_pipeline
    /\ UNCHANGED <<env, run, argv, args, aml_run, dbricks_compute, pat_token,
                   instance_pool_id, notebook_path, training_dataprep_step>>

\* Lines 252-258.
Publish ==
    /\ pc = "publish"
    /\ \E n \in 0..1 :
         /\ log' = Issue(<<Req("publish", args.build_id)>>, n)
         /\ IF n = 1
            THEN /\ published_pipeline' =
                        [name |-> "Feature Engineering",
                         version |-> args.build_id,
                         steps |-> <<training_dataprep_step>>]
                 /\ pc' = "done"
                 /\ error' = error
            ELSE /\ Raise("sdk")
                 /\ published_pipeline' = published_pipeline
    /\ UNCHANGED <<env, run, argv, args, aml_run, dbricks_compute, pat_token,
                   instance_pool_id, notebook_path, training_dataprep_step>>

\* Lines 261-262: the script is run again, against the remote state the
\* earlier runs left.
NextRun ==
    /\ pc \in {"done", "failed"}
    /\ run < MaxRuns
    /\ run' = run + 1
    /\ pc' = "parse_args"
    /\ log' = <<>>
    /\ error' = "none"
    /\ argv' = [databricks_workspace_name |-> None, build_id |-> None]
    /\ args' = [databricks_workspace_name |-> None, build_id |-> None]
    /\ aml_run' = None
    /\ dbricks_compute' = NoneObject
    /\ pat_token' = None
    /\ instance_pool_id' = None
    /\ notebook_path' = None
    /\ training_dataprep_step' = [name |-> None]
    /\ published_pipeline' = [name |-> None]
    /\ UNCHANGED env

Next ==
    \/ ParseArgs
    \/ GetContext
    \/ RunWorkspace
    \/ FromConfig
    \/ Credentials
    \/ Authenticate
    \/ GetCompute
    \/ TokenCreate
    \/ CreateCompute
    \/ PoolLookup
    \/ PoolCreate
    \/ PoolRelookup
    \/ Datastores
    \/ UploadNotebook
    \/ BuildStep
    \/ BuildPipeline
    \/ Publish
    \/ NextRun

Spec == Init /\ [][Next]_vars

----------------------------------------------------------------------------
\* Reading the trace of the current run.
Calls(c) == {i \in 1..Len(log) : log[i].call = c}

Count(c) == Cardinality(Calls(c))

Issued(c) == Calls(c) # {}

Returned(c) == \E i \in Calls(c) : log[i].ok

\* The requests that change remote state.
StateChanging ==
    {"token/create", "ComputeTarget.attach", "instance-pools/create",
     "workspace/mkdirs", "workspace/import", "publish"}

\* The stage of main() a call belongs to, 0 for a call of no stage.
StageOf(c) ==
    CASE c = "auth_azuread" -> 1
      [] c \in {"Workspace.compute_targets", "token/create", "ComputeTarget.attach"} -> 2
      [] c \in {"instance-pools/list", "instance-pools/create"} -> 3
      [] c \in {"workspace/mkdirs", "workspace/import"} -> 4
      [] c = "DatabricksStep" -> 5
      [] c \in {"validate", "publish"} -> 6
      [] OTHER -> 0

Staged == {i \in 1..Len(log) : StageOf(log[i].call) > 0}

\* --build_id as main() uses it.
ExpectedBuildId == IF argv.build_id = None THEN "local" ELSE argv.build_id

\* The id get_instance_pool is to return on the pools listed.
Matching(listed, name) == {i \in 1..Len(listed) : listed[i].instance_pool_name = name}

ExpectedPoolId(listed, name) ==
    IF Matching(listed, name) = {} THEN None
    ELSE LET first == CHOOSE i \in Matching(listed, name) :
                          \A j \in Matching(listed, name) : i <= j
         IN  listed[first].instance_pool_id

----------------------------------------------------------------------------
\* C1: in a run that reaches the publish call the stages authenticate,
\* compute target, instance pool, notebook upload (mkdirs then import),
\* DatabricksStep, validate then publish each happen once, as one block, in
\* that order, and every call of a stage issued before publish returned.
C1_StagesInOrder ==
    Issued("publish") =>
        /\ \A i, j \in Staged : i < j => StageOf(log[i].call) <= StageOf(log[j].call)
        /\ \A k \in 1..6 : \E i \in Staged : StageOf(log[i].call) = k
        /\ \A c \in {"auth_azuread", "workspace/mkdirs", "workspace/import",
                     "DatabricksStep", "validate", "publish"} : Count(c) = 1
        /\ \A i \in Calls("workspace/mkdirs"), j \in Calls("workspace/import") : i < j
        /\ \A i \in Calls("publish") : i > 1 /\ log[i - 1].call = "validate"
        /\ \A i \in Staged : log[i].call # "publish" => log[i].ok

C1_Witness ==
    /\ pc = "done"
    /\ Returned("publish")
    /\ Issued("instance-pools/create")

\* C2: when get_databricks_compute returned None and token/create returned,
\* the run attaches the compute target: it does not end before
\* ComputeTarget.attach is issued.
C2_AttachAfterToken ==
    (Returned("token/create") /\ pc = "failed") => Issued("ComputeTarget.attach")

\* C3: the run fails when the pool is still absent after the second lookup:
\* no DatabricksStep is built and no pipeline is published with an empty
\* instance_pool_id.
C3_NoStepWithoutPool ==
    /\ training_dataprep_step.name # None
         => ~Falsy(training_dataprep_step.instance_pool_id)
    /\ published_pipeline.name # None
         => ~Falsy(published_pipeline.steps[1].instance_pool_id)

\* C4: once workspace.compute_targets is read, get_databricks_compute returns
\* None exactly when 'databricks' is not a key, returns the target exactly
\* when it is present, truthy and a DatabricksCompute, and raises otherwise;
\* a run it raised in has ended and has issued no token/create, attach,
\* instance-pools/create, notebook upload or publish.
C4_ComputeLookup ==
    LET present == dbricks_compute_name \in DOMAIN compute_targets
        usable  == /\ present
                   /\ compute_targets[dbricks_compute_name].truthy
                   /\ compute_targets[dbricks_compute_name].type = "DatabricksCompute"
        read    == /\ Issued("Workspace.compute_targets")
                   /\ \A i \in Calls("Workspace.compute_targets") : log[i].ok
    IN  /\ error = "ValueError" => read
        /\ read =>
             /\ (error # "ValueError" /\ dbricks_compute = NoneObject) <=> ~present
             /\ (error # "ValueError" /\ dbricks_compute # NoneObject) <=> usable
             /\ usable => dbricks_compute = compute_targets[dbricks_compute_name]
             /\ error = "ValueError" <=> (present /\ ~usable)
        /\ error = "ValueError" =>
             /\ pc = "failed"
             /\ \A c \in StateChanging : ~Issued(c)

C4_Witness ==
    /\ pc = "failed"
    /\ error = "ValueError"
    /\ compute_targets[dbricks_compute_name].type = "AmlCompute"

\* C5 as stated: whenever a call made by main() raises, the process ends at
\* that point and no later call is issued.
C5_EveryRaiseEndsRun ==
    \A i \in 1..Len(log) : ~log[i].ok => (i = Len(log) /\ pc = "failed")

\* C5: whenever a call made by main() other than Run.get_context raises, the
\* process ends at that point with that exception and no later call is
\* issued; a run that has not failed holds no raised call but Run.get_context.
C5_RaiseEndsRunButGetContext ==
    /\ \A i \in 1..Len(log) :
           (~log[i].ok /\ log[i].call # "Run.get_context")
               => (i = Len(log) /\ pc = "failed" /\ error = "sdk")
    /\ error = "sdk" => (pc = "failed" /\ log # <<>> /\ ~log[Len(log)].ok)

C5_Witness ==
    /\ pc = "failed"
    /\ error = "sdk"
    /\ log[Len(log)].call = "workspace/mkdirs"
    /\ aml_run = None

\* C6 as stated: every state-changing request is issued at most once in a
\* run, and the only request issued twice is instance-pools/list, the second
\* time directly after instance-pools/create.
C6_OnlyListTwice ==
    /\ \A c \in StateChanging : Count(c) <= 1
    /\ \A i, j \in 1..Len(log) :
           (i < j /\ log[i].call = log[j].call /\ log[i].arg = log[j].arg)
               => (log[j].call = "instance-pools/list"
                   /\ log[j - 1].call = "instance-pools/create")

\* C6: main() makes two reads twice without any retry: the key vault of the
\* workspace (lines 135-138 and 154-159, in a run inside an Azure ML run) and
\* workspace.compute_targets (lines 23 and 25).  Every state-changing request is issued at most once in a run; no
\* request is issued more than twice; a request issued twice is
\* instance-pools/list, the second time directly after
\* instance-pools/create, or one of the repeated reads, and a key vault read
\* is repeated only in a run inside an Azure ML run.
C6_NoRetry ==
    /\ \A c \in StateChanging : Count(c) <= 1
    /\ Count("instance-pools/list") <= 2
    /\ \A i, j \in 1..Len(log) :
           (i < j /\ log[i].call = log[j].call /\ log[i].arg = log[j].arg) =>
               /\ \/ /\ log[j].call = "instance-pools/list"
                     /\ log[j - 1].call = "instance-pools/create"
                  \/ /\ log[j].call \in {"get_default_keyvault", "get_secret"}
                     /\ Returned("Run.get_context")
                  \/ log[j].call = "Workspace.compute_targets"
               /\ \A k \in 1..Len(log) :
                      (log[k].call = log[i].call /\ log[k].arg = log[i].arg) => k \in {i, j}

C6_Witness ==
    /\ pc = "done"
    /\ Count("instance-pools/list") = 2
    /\ Returned("instance-pools/create")

\* C7: a create request is issued only when the lookup directly before it
\* found nothing; while the environment holds a DatabricksCompute target
\* 'databricks' and a pool 'azureml_training', no step issues token/create,
\* an attach or instance-pools/create; and against a service that lists the
\* pools it created, all runs together create at most one pool.
EnvironmentComplete ==
    /\ dbricks_compute_name \in DOMAIN compute_targets
    /\ compute_targets[dbricks_compute_name] = [type |-> "DatabricksCompute", truthy |-> TRUE]
    /\ Matching(pools, pool_name) # {}

NoCreateIssued ==
    \A i \in (Len(log) + 1)..Len(log') :
        log'[i].call \notin {"token/create", "ComputeTarget.attach", "instance-pools/create"}

CreateFollowsEmptyLookup ==
    /\ \A i \in Calls("instance-pools/create") :
           i > 1 /\ log[i - 1].call = "instance-pools/list" /\ log[i - 1].ok
    /\ \A i \in Calls("token/create") :
           i > 1 /\ log[i - 1].call = "Workspace.compute_targets" /\ log[i - 1].ok
    /\ pc = "pool_create" => Matching(pools, pool_name) = {}
    /\ pc = "token_create" => dbricks_compute_name \notin DOMAIN compute_targets

C7_Idempotent ==
    /\ [](CreateFollowsEmptyLookup /\ (consistent => created <= 1))
    /\ [][EnvironmentComplete => NoCreateIssued]_vars

C7_Witness ==
    /\ run = 2
    /\ consistent
    /\ created = 1
    /\ pc = "done"
    /\ ~Issued("instance-pools/create")

\* C8: the pipeline is published under the value of --build_id, "local" when
\* the flag is not given; the comment of a token created in the run ends
\* with that value; a run without --databricks_workspace_name issues no call.
C8_BuildId ==
    /\ published_pipeline.name # None => published_pipeline.version = ExpectedBuildId
    /\ \A i \in Calls("publish") : log[i].arg = ExpectedBuildId
    /\ \A i \in Calls("token/create") :
           log[i].arg = "Azure ML Token generated by Build " \o ExpectedBuildId
    /\ (pc # "parse_args" /\ argv.databricks_workspace_name = None)
           => (log = <<>> /\ pc = "failed" /\ error = "SystemExit")

C8_Witness ==
    /\ pc = "done"
    /\ argv.build_id = None
    /\ published_pipeline.version = "local"

\* C9: each get_instance_pool issues one instance-pools/list and returns the
\* id of the first listed pool named as asked, None when none is listed
\* under that name, and never the id of a pool of another name.
AfterPoolLookup ==
    {"pool_create", "datastores", "upload_notebook", "build_step",
     "build_pipeline", "publish", "done"}

C9_FirstPoolOfName ==
    /\ pc \in AfterPoolLookup =>
         /\ instance_pool_id = ExpectedPoolId(pools, pool_name)
         /\ instance_pool_id # None =>
                \E i \in 1..Len(pools) :
                    /\ pools[i].instance_pool_name = pool_name
                    /\ pools[i].instance_pool_id = instance_pool_id
         /\ Count("instance-pools/list") = 1 + Count("instance-pools/create")
    /\ pc \in {"pool_create", "pool_relookup"} => Count("instance-pools/list") = 1
    /\ pc \in {"get_compute", "token_create", "create_compute", "pool_lookup"}
           => Count("instance-pools/list") = 0

C9_Witness ==
    /\ pc = "datastores"
    /\ Len(pools) = 2
    /\ pools[1].instance_pool_name = "other"
    /\ pools[1].instance_pool_id = "pool-a"
    /\ instance_pool_id = "pool-b"

\* C10: workspace/mkdirs of '<notebook_folder>/<sha1 of the content>' comes
\* directly before workspace/import, with overwrite, of
\* '<that folder>/<notebook_name>', the path returned; uploads of the same
\* content have the same path and uploads of different contents different
\* paths; the notebook_path of a published step was imported in the run.
C10_ContentAddressedUpload ==
    /\ \A i \in Calls("workspace/import") :
           /\ i > 1
           /\ log[i - 1].call = "workspace/mkdirs"
           /\ log[i - 1].ok
           /\ log[i].arg = log[i - 1].arg \o "/" \o notebook_name
    /\ \A i \in Calls("workspace/mkdirs") :
           \E c \in FileContents : log[i].arg = notebook_folder \o "/" \o sha1_hexdigest(c)
    /\ notebook_path # None =>
           \E i \in Calls("workspace/import") : log[i].ok /\ log[i].arg = notebook_path
    /\ \A a, b \in imported :
           /\ a.overwrite
           /\ (a.content = b.content) <=> (a.path = b.path)
    /\ published_pipeline.name # None =>
           \E i \in Calls("workspace/import") :
               /\ log[i].ok
               /\ log[i].arg = published_pipeline.steps[1].notebook_path
               /\ \E nb \in imported : nb.path = log[i].arg

C10_Witness ==
    /\ run = 2
    /\ pc = "done"
    /\ Cardinality(imported) = 2

====
